---- MODULE Spec2Model ----
(***************************************************************************)
(* Model of plugins/modules/zos_operator_action_query.py: validation of    *)
(* the filter values, the two line parsers, the merge on "number", the     *)
(* field filter, and run_module that strings them together.                *)
(*                                                                         *)
(* Python strings are sequences of one-character strings; a dict is a      *)
(* function whose DOMAIN is its set of keys; a call's outcome is a record  *)
(* [kind |-> "return", value |-> v] or [kind |-> "raise", exc |-> e, ...]. *)
(***************************************************************************)
EXTENDS Integers, Sequences, FiniteSets, TLC

VARIABLES
    fn, args, ret,          \* a single call of one function: name, arguments, outcome
    pc,                     \* run_module: position in the body
    params,                 \* run_module: module.params
    new_params,             \* run_module: parse_params' result
    cmd_result_a,           \* run_module: OperatorQueryResult of "d r,a,s"
    cmd_result_b,           \* run_module: OperatorQueryResult of "d r,a,jn"
    merged_list,            \* run_module: create_merge_list's result
    requests,               \* run_module: the list handed to result["actions"]
    result,                 \* run_module: the result dict
    exit,                   \* run_module: what exit_json / fail_json was given
    log                     \* run_module: the engine steps performed, in order

callVars == <<fn, args, ret>>
runVars == <<pc, params, new_params, cmd_result_a, cmd_result_b, merged_list,
             requests, result, exit, log>>
vars == <<fn, args, ret, pc, params, new_params, cmd_result_a, cmd_result_b,
          merged_list, requests, result, exit, log>>

----------------------------------------------------------------------------
(* Characters and Python str helpers *)

Digits == {"0", "1", "2", "3", "4", "5", "6", "7", "8", "9"}

LowerSeq == <<"a", "b", "c", "d", "e", "f", "g", "h", "i", "j", "k", "l", "m",
              "n", "o", "p", "q", "r", "s", "t", "u", "v", "w", "x", "y", "z">>

UpperSeq == <<"A", "B", "C", "D", "E", "F", "G", "H", "I", "J", "K", "L", "M",
              "N", "O", "P", "Q", "R", "S", "T", "U", "V", "W", "X", "Y", "Z">>

Lower == {LowerSeq[i] : i \in DOMAIN LowerSeq}

Upper == {UpperSeq[i] : i \in DOMAIN UpperSeq}

\* \s of the re module, and the characters str.strip() removes
White == {" ", "\n", "\t"}

\* Python's None, comparable with every modelled string
None == <<"None">>

Min(a, b) == IF a < b THEN a ELSE b

Max(S) == CHOOSE x \in S : \A y \in S : y <= x

\* str.upper() on one character
UpperChar(c) ==
    IF \E i \in DOMAIN LowerSeq : LowerSeq[i] = c
    THEN UpperSeq[CHOOSE i \in DOMAIN LowerSeq : LowerSeq[i] = c]
    ELSE c

\* str.upper()
StrUpper(s) == [i \in DOMAIN s |-> UpperChar(s[i])]

\* s[i:j] with 1-based inclusive start i and exclusive end j
Slice(s, i, j) == SubSeq(s, i, j - 1)

\* the length of the longest run of characters of class C in s from position p
Run(s, p, C) ==
    Max({n \in 0..(Len(s) - p + 1) : \A i \in p..(p + n - 1) : s[i] \in C})

\* str.endswith(suffix) for a one-character suffix
EndsWith(s, c) == Len(s) > 0 /\ s[Len(s)] = c

\* str.startswith(prefix)
StartsWith(s, prefix) ==
    /\ Len(prefix) <= Len(s)
    /\ \A i \in 1..Len(prefix) : s[i] = prefix[i]

\* str.rstrip(c): every trailing c removed
RStrip(s, c) ==
    LET keep == Max({n \in 0..Len(s) : n = 0 \/ s[n] # c})
    IN SubSeq(s, 1, keep)

\* str.strip(): leading and trailing whitespace removed
Strip(s) ==
    LET inner == {i \in 1..Len(s) : s[i] \notin White}
    IN IF inner = {} THEN <<>>
       ELSE SubSeq(s, CHOOSE i \in inner : \A j \in inner : i <= j, Max(inner))

Return(v) == [kind |-> "return", value |-> v]

Raise(e, a) == [kind |-> "raise", exc |-> e, arg |-> a]

NotCalled == [kind |-> "none"]

----------------------------------------------------------------------------
(* Pattern validation: system_type, message_id_type, job_name_type *)

\* the {1,8} of the first branch of the system / job_name regex
MaxNameLen == 8

\* the {0,7} of the second branch of the system / job_name regex
MaxPrefixLen == 7

\* [a-zA-Z0-9]
ShapeClass == Lower \cup Upper \cup Digits

\* $ without re.MULTILINE: at the end, or before a final newline
AtDollar(s, e) == e = Len(s) \/ (e = Len(s) - 1 /\ s[Len(s)] = "\n")

\* The offsets at which "^(?:X{1,m1})|(?:X{0,m2}[*])$" can end a match that
\* starts at offset 0; bounded = FALSE is the {1,} / {0,} of message_id.
\* The alternation splits the whole pattern: ^ belongs to the first branch
\* only and $ to the second only.
ShapeEnds(s, bounded, m1, m2) ==
    LET run == Run(s, 1, ShapeClass)
        first == {n \in 1..(IF bounded THEN Min(m1, run) ELSE run) : TRUE}
        second == {n + 1 : n \in {k \in 0..(IF bounded THEN Min(m2, run) ELSE run) :
                                    /\ k + 1 <= Len(s)
                                    /\ s[k + 1] = "*"
                                    /\ AtDollar(s, k + 1)}}
    IN first \cup second

\* pattern.match(value) in place of fullmatch: some match starts at offset 0
PrefixMatch(s, bounded, m1, m2) == ShapeEnds(s, bounded, m1, m2) # {}

\* pattern.fullmatch(value): a match from offset 0 that ends at the end
FullMatch(s, bounded, m1, m2) == Len(s) \in ShapeEnds(s, bounded, m1, m2)

validate_parameters_based_on_regex(value, bounded, m1, m2) ==
    IF FullMatch(value, bounded, m1, m2)
    THEN Return(value)
    ELSE Raise("ValidationError", value)

ShapeType(arg_val, bounded, m1, m2) ==
    LET v == validate_parameters_based_on_regex(arg_val, bounded, m1, m2)
    IN IF v.kind = "raise" THEN v ELSE Return(StrUpper(arg_val))

system_type(arg_val) == ShapeType(arg_val, TRUE, MaxNameLen, MaxPrefixLen)

message_id_type(arg_val) == ShapeType(arg_val, FALSE, 0, 0)

job_name_type(arg_val) == ShapeType(arg_val, TRUE, MaxNameLen, MaxPrefixLen)

----------------------------------------------------------------------------
(* The regular expressions of the two line parsers.  A match attempt at    *)
(* position p is a chain of operators, one per element of the pattern,     *)
(* each handing the rest of the text to the next; Greedy is the            *)
(* backtracking of a greedy quantifier: the longest repetition after which *)
(* the rest of the pattern still matches.                                  *)

NoMatch == [ok |-> FALSE]

Matched(e, g) == [ok |-> TRUE, end |-> e, g |-> g]

In(s, p, C) == p <= Len(s) /\ s[p] \in C

\* cont[k] is the outcome of the rest of the pattern after k repetitions
Greedy(cont) ==
    LET tries == {<<k, cont[k]>> : k \in DOMAIN cont}
        good == {t \in tries : t[2].ok}
    IN IF good = {} THEN NoMatch
       ELSE (CHOOSE t \in good : \A u \in good : u[1] <= t[1])[2]

\* ^ under re.MULTILINE
AtLineStart(s, p) == p = 1 \/ s[p - 1] = "\n"

\* the characters "." matches in s
Dot(s) == {s[i] : i \in DOMAIN s} \ {"\n"}

\* [A-Z0-9]
TokenClass == Upper \cup Digits

\* the {1,8} of the host, job-id and job-name tokens
MaxTokenLen == 8

\* the {2,} of the sequence number
MinNumberLen == 2

\* parse_result_a, the pattern element by element:
\*   ^ \s* ([0-9]{2,}) \s ([A-Z]{1}) \s ([A-Z0-9]{1,8}) \s+ ((?:[A-Z0-9]{1,8})?)
\*   \s* [&*]? [0-9]+ ( .* )

\* ( .* ): the rest of the line
ReA_text(s, p, g) ==
    LET n == Run(s, p, Dot(s))
    IN Matched(p + n, g @@ (5 :> Slice(s, p, p + n)))

\* [0-9]+
ReA_backref(s, p, g) ==
    Greedy([k \in 1..Run(s, p, Digits) |->
        ReA_text(s, p + k, g)])

\* [&*]?
ReA_marker(s, p, g) ==
    LET marked == IF In(s, p, {"&", "*"}) THEN ReA_backref(s, p + 1, g) ELSE NoMatch
    IN IF marked.ok THEN marked ELSE ReA_backref(s, p, g)

\* \s*
ReA_gap(s, p, g) ==
    Greedy([k \in 0..Run(s, p, White) |->
        ReA_marker(s, p + k, g)])

\* ((?:[A-Z0-9]{1,8})?)
ReA_job(s, p, g) ==
    Greedy([k \in 0..Min(MaxTokenLen, Run(s, p, TokenClass)) |->
        ReA_gap(s, p + k, g @@ (4 :> Slice(s, p, p + k)))])

\* \s+
ReA_sep(s, p, g) ==
    Greedy([k \in 1..Run(s, p, White) |->
        ReA_job(s, p + k, g)])

\* ([A-Z0-9]{1,8})
ReA_system(s, p, g) ==
    Greedy([k \in 1..Min(MaxTokenLen, Run(s, p, TokenClass)) |->
        ReA_sep(s, p + k, g @@ (3 :> Slice(s, p, p + k)))])

\* \s([A-Z]{1})\s
ReA_type(s, p, g) ==
    IF In(s, p, White) /\ In(s, p + 1, Upper) /\ In(s, p + 2, White)
    THEN ReA_system(s, p + 3, g @@ (2 :> <<s[p + 1]>>))
    ELSE NoMatch

\* ([0-9]{2,})
ReA_number(s, p) ==
    Greedy([k \in MinNumberLen..Run(s, p, Digits) |->
        ReA_type(s, p + k, 1 :> Slice(s, p, p + k))])

\* ^\s*
ReA_at(s, p) ==
    IF AtLineStart(s, p)
    THEN Greedy([k \in 0..Run(s, p, White) |->
        ReA_number(s, p + k)])
    ELSE NoMatch

\* parse_result_b, the pattern element by element:
\*   ^ \s* ([0-9]{2,}) \s [A-Z]{1} \s+ ([A-Z0-9]{1,8})? \s* [&*]? [0-9]+ \s ([A-Z0-9]+)

\* \s([A-Z0-9]+)
ReB_id(s, p, g) ==
    IF In(s, p, White)
    THEN Greedy([k \in 1..Run(s, p + 1, TokenClass) |->
        Matched(p + 1 + k, g @@ (3 :> Slice(s, p + 1, p + 1 + k)))])
    ELSE NoMatch

\* [0-9]+
ReB_backref(s, p, g) ==
    Greedy([k \in 1..Run(s, p, Digits) |->
        ReB_id(s, p + k, g)])

\* [&*]?
ReB_marker(s, p, g) ==
    LET marked == IF In(s, p, {"&", "*"}) THEN ReB_backref(s, p + 1, g) ELSE NoMatch
    IN IF marked.ok THEN marked ELSE ReB_backref(s, p, g)

\* \s*
ReB_gap(s, p, g) ==
    Greedy([k \in 0..Run(s, p, White) |->
        ReB_marker(s, p + k, g)])

\* ([A-Z0-9]{1,8})?  -- a group that took no part in the match is None
ReB_job(s, p, g) ==
    Greedy([k \in 0..Min(MaxTokenLen, Run(s, p, TokenClass)) |->
        ReB_gap(s, p + k,
                              g @@ (2 :> IF k = 0 THEN None ELSE Slice(s, p, p + k)))])

\* \s[A-Z]{1}\s+
ReB_type(s, p, g) ==
    IF In(s, p, White) /\ In(s, p + 1, Upper)
    THEN Greedy([k \in 1..Run(s, p + 2, White) |->
        ReB_job(s, p + 2 + k, g)])
    ELSE NoMatch

\* ([0-9]{2,})
ReB_number(s, p) ==
    Greedy([k \in MinNumberLen..Run(s, p, Digits) |->
        ReB_type(s, p + k, 1 :> Slice(s, p, p + k))])

\* ^\s*
ReB_at(s, p) ==
    IF AtLineStart(s, p)
    THEN Greedy([k \in 0..Run(s, p, White) |->
        ReB_number(s, p + k)])
    ELSE NoMatch

MatchAt(re, s, p) == IF re = "a" THEN ReA_at(s, p) ELSE ReB_at(s, p)

\* re.finditer(re, s, re.MULTILINE) from position pos: the leftmost match,
\* then the matches of the text after it
RECURSIVE FindIter(_, _, _)
FindIter(re, s, pos) ==
    IF pos > Len(s) + 1 THEN <<>>
    ELSE LET m == MatchAt(re, s, pos)
         IN IF m.ok
            THEN <<m>> \o FindIter(re, s, IF m.end = pos THEN pos + 1 ELSE m.end)
            ELSE FindIter(re, s, pos + 1)

----------------------------------------------------------------------------
(* The line parsers and the merge *)

\* message_text of parse_result_a: the stripped remainder
MessageText(g5) == Strip(g5)

\* the dict parse_result_a builds from one match
RecordA(g) ==
    LET base == ("number" :> g[1]) @@ ("type" :> g[2]) @@ ("system" :> g[3])
        job == IF g[4] # <<>> THEN ("job_id" :> g[4]) @@ base ELSE base
    IN IF g[5] # <<>> THEN ("message_text" :> MessageText(g[5])) @@ job ELSE job

parse_result_a(text) ==
    LET ms == FindIter("a", text, 1)
    IN [i \in DOMAIN ms |-> RecordA(ms[i].g)]

\* the dict parse_result_b builds from one match: keys with None removed
RecordB(g) ==
    LET dict_temp == ("number" :> g[1]) @@ ("job_name" :> g[2]) @@ ("message_id" :> g[3])
        keys == {k \in DOMAIN dict_temp : dict_temp[k] # None}
    IN [k \in keys |-> dict_temp[k]]

parse_result_b(text) ==
    LET ms == FindIter("b", text, 1)
    IN [i \in DOMAIN ms |-> RecordB(ms[i].g)]

\* dict.get(key)
Get(dict, key) == IF key \in DOMAIN dict THEN dict[key] ELSE None

\* dict_z = dict_a.copy(); dict_z.update(dict_b)
Update(dict_a, dict_b) == dict_b @@ dict_a

\* the inner loop of merge_list: dict_a against list_b from index j on
RECURSIVE MergeRow(_, _, _)
MergeRow(dict_a, list_b, j) ==
    IF j > Len(list_b) THEN <<>>
    ELSE (IF Get(dict_a, "number") = Get(list_b[j], "number")
          THEN <<Update(dict_a, list_b[j])>>
          ELSE <<>>) \o MergeRow(dict_a, list_b, j + 1)

\* the outer loop of merge_list: list_a from index i on
RECURSIVE MergeFrom(_, _, _)
MergeFrom(list_a, list_b, i) ==
    IF i > Len(list_a) THEN <<>>
    ELSE MergeRow(list_a[i], list_b, 1) \o MergeFrom(list_a, list_b, i + 1)

\* merge_list with a "break" after the first match of the inner loop
merge_list_first_match(list_a, list_b) ==
    LET row(i) == MergeRow(list_a[i], list_b, 1)
        first(i) == IF row(i) = <<>> THEN <<>> ELSE <<Head(row(i))>>
        F[i \in 0..Len(list_a)] == IF i = 0 THEN <<>> ELSE F[i - 1] \o first(i)
    IN F[Len(list_a)]

merge_list(list_a, list_b) == MergeFrom(list_a, list_b, 1)

create_merge_list(message_a, message_b) ==
    merge_list(parse_result_a(message_a), parse_result_b(message_b))

----------------------------------------------------------------------------
(* The field filter *)

\* "if system:" -- None and the empty string are falsy
Truthy(v) == v # None /\ v # <<>>

\* handle_conditions from index i on.  dict.get(condition_type) is None for
\* a dict without the key, and None has no startswith: AttributeError.
RECURSIVE HandleFrom(_, _, _, _)
HandleFrom(list, condition_type, value, i) ==
    IF i > Len(list) THEN Return(<<>>)
    ELSE LET dict == list[i]
             field == Get(dict, condition_type)
         IN IF EndsWith(value, "*") /\ field = None
            THEN Raise("AttributeError", condition_type)
            ELSE LET exist == IF EndsWith(value, "*")
                              THEN StartsWith(field, RStrip(value, "*"))
                              ELSE field = value
                     rest == HandleFrom(list, condition_type, value, i + 1)
                 IN IF rest.kind = "raise" THEN rest
                    ELSE Return((IF exist THEN <<dict>> ELSE <<>>) \o rest.value)

handle_conditions(list, condition_type, value) ==
    HandleFrom(list, condition_type, value, 1)

\* the body of filter_requests with its three "if" blocks in the given order
RECURSIVE FilterInOrder(_, _, _, _)
FilterInOrder(newlist, fparams, order, i) ==
    IF i > Len(order) THEN Return(newlist)
    ELSE LET key == order[i]
             value == Get(fparams, key)
         IN IF ~Truthy(value)
            THEN FilterInOrder(newlist, fparams, order, i + 1)
            ELSE LET step == handle_conditions(newlist, key, value)
                 IN IF step.kind = "raise" THEN step
                    ELSE FilterInOrder(step.value, fparams, order, i + 1)

\* the order of the "if" blocks in filter_requests
FilterOrder == <<"system", "job_name", "message_id">>

filter_requests(list, fparams) == FilterInOrder(list, fparams, FilterOrder, 1)

find_required_request(list, fparams) == filter_requests(list, fparams)

----------------------------------------------------------------------------
(* parse_params *)

\* arg_defs: the arg_type of each key
ArgType(key, v) ==
    CASE key = "system" -> system_type(v)
      [] key = "message_id" -> message_id_type(v)
      [] key = "job_name" -> job_name_type(v)

\* arg_defs: the keys in the order they are declared
ArgOrder == <<"system", "message_id", "job_name">>

\* BetterArgParser.parse_args: every supplied value goes through its
\* arg_type; the first exception raised by one is raised to the caller
ParseArgs(p) ==
    LET outs == [k \in DOMAIN p |-> IF p[k] = None THEN Return(None) ELSE ArgType(k, p[k])]
        bad == {i \in DOMAIN ArgOrder : outs[ArgOrder[i]].kind = "raise"}
    IN IF bad = {}
       THEN Return([k \in DOMAIN p |-> outs[k].value])
       ELSE outs[ArgOrder[CHOOSE i \in bad : \A j \in bad : i <= j]]

parse_params(p) == ParseArgs(p)

----------------------------------------------------------------------------
(* run_module *)

\* OperatorQueryResult.__init__
OperatorQueryResult(rc, stdout, stderr) ==
    [called |-> TRUE, rc |-> rc, stdout |-> stdout, stderr |-> stderr, message |-> stdout]

NoResult == [called |-> FALSE]

\* str.splitlines()
RECURSIVE SplitLines(_)
SplitLines(s) ==
    IF s = <<>> THEN <<>>
    ELSE LET n == Run(s, 1, Dot(s))
         IN <<SubSeq(s, 1, n)>> \o SplitLines(SubSeq(s, n + 2, Len(s)))

\* "x.splitlines() if x else None"
LinesOrNone(s) == IF s # <<>> THEN SplitLines(s) ELSE None

NotExited == [how |-> "none"]

\* module.fail_json(**kw) / module.exit_json(**kw): the process ends there
FailJson(kw, cause) == [how |-> "fail_json", kw |-> kw, cause |-> cause]

ExitJson(kw) == [how |-> "exit_json", kw |-> kw]

\* the fail_json of a query that came back with rc > 0
CommandFailure(r, cmd) ==
    FailJson([msg |-> "A non-zero return code was received while querying the operator.",
              stdout |-> r.stdout, stderr |-> r.stderr, rc |-> r.rc,
              stdout_lines |-> LinesOrNone(r.stdout),
              stderr_lines |-> LinesOrNone(r.stderr),
              cmd |-> cmd],
             NotCalled)

(* What the operator can answer.  The lines are in the shape of the samples
   in the docstrings of create_merge_list and parse_result_a. *)

\* "11 R MV1 J1 &11 M1 GO"
LineA11 == <<"1", "1", " ", "R", " ", "M", "V", "1", " ", "J", "1", " ", "&", "1", "1",
             " ", "M", "1", " ", "G", "O">>

\* "12 R MV2 *12 D1 "
LineA12 == <<"1", "2", " ", "R", " ", "M", "V", "2", " ", "*", "1", "2", " ", "D", "1", " ">>

\* "11 R JB1 &11 M1 GO"
LineB11 == <<"1", "1", " ", "R", " ", "J", "B", "1", " ", "&", "1", "1", " ", "M", "1",
             " ", "G", "O">>

\* "12 R *12 D1"
LineB12 == <<"1", "2", " ", "R", " ", "*", "1", "2", " ", "D", "1">>

StdoutsA == {<<>>, LineA11, LineA12, LineA11 \o <<"\n">> \o LineA12}

StdoutsB == {<<>>, LineB11, LineB12, LineB11 \o <<"\n">> \o LineB12}

\* the return codes of the command: success, a failure, death by a signal
ReturnCodes == {0, 8, -1}

\* what the command writes to stderr with a return code
StderrOf(rc) == IF rc = 0 THEN <<>> ELSE <<"E">>

Responses(stdouts) ==
    {[rc |-> rc, stdout_response |-> out, stderr_response |-> StderrOf(rc)] :
        rc \in ReturnCodes, out \in stdouts}

\* module.params: every key present, None when the playbook gives no value
SystemValues == {None, <<"m", "v", "1">>, <<"m", "-">>}

JobNameValues == {None, <<"j", "b", "*">>,
                  <<"j", "b", "1", "2", "3", "4", "5", "6", "7">>}

MessageIdValues == {None, <<"d", "*">>, <<"*", "x">>}

ParamSpace ==
    {[system |-> sy, job_name |-> jn, message_id |-> mi] :
        sy \in SystemValues, jn \in JobNameValues, mi \in MessageIdValues}

NoParams == [system |-> None, job_name |-> None, message_id |-> None]

CallIdle == fn = "none" /\ args = <<>> /\ ret = NotCalled

RunIdle ==
    /\ pc = "idle"
    /\ params = NoParams
    /\ new_params = NoParams
    /\ cmd_result_a = NoResult
    /\ cmd_result_b = NoResult
    /\ merged_list = <<>>
    /\ requests = <<>>
    /\ result = [changed |-> FALSE]
    /\ exit = NotExited
    /\ log = <<>>

\* result = dict(changed=False); module = AnsibleModule(...); requests = []
Init ==
    /\ CallIdle
    /\ pc = "parse_params"
    /\ params \in ParamSpace
    /\ new_params = NoParams
    /\ cmd_result_a = NoResult
    /\ cmd_result_b = NoResult
    /\ merged_list = <<>>
    /\ requests = <<>>
    /\ result = [changed |-> FALSE]
    /\ exit = NotExited
    /\ log = <<>>

\* "except Error as e" swallowing the error: the run goes on with the raw values
RunParseParamsNoAbort ==
    /\ pc = "parse_params"
    /\ LET r == parse_params(params)
       IN /\ new_params' = IF r.kind = "raise" THEN params ELSE r.value
          /\ pc' = "query_a"
          /\ log' = Append(log, "parse_params")
    /\ UNCHANGED <<callVars, params, cmd_result_a, cmd_result_b, merged_list, requests,
                   result, exit>>

\* new_params = parse_params(module.params); a ValidationError is an Error:
\* module.fail_json(msg=repr(e), **result)
RunParseParams ==
    /\ pc = "parse_params"
    /\ LET r == parse_params(params)
       IN IF r.kind = "raise"
          THEN /\ exit' = FailJson(result @@ [msg |-> "repr(e)"], r)
               /\ pc' = "exited"
               /\ UNCHANGED new_params
          ELSE /\ new_params' = r.value
               /\ pc' = "query_a"
               /\ UNCHANGED exit
    /\ log' = Append(log, "parse_params")
    /\ UNCHANGED <<callVars, params, cmd_result_a, cmd_result_b, merged_list, requests, result>>

\* execute_command(operator_cmd), given the response of opercmd.execute
execute_command(response) ==
    OperatorQueryResult(response.rc, response.stdout_response, response.stderr_response)

\* cmd_result_a = execute_command("d r,a,s"); if cmd_result_a.rc > 0: fail_json
RunQueryA ==
    /\ pc = "query_a"
    /\ \E response \in Responses(StdoutsA) :
        LET r == execute_command(response)
        IN /\ cmd_result_a' = r
           /\ IF r.rc > 0
              THEN exit' = CommandFailure(r, "d r,a,s") /\ pc' = "exited"
              ELSE pc' = "query_b" /\ UNCHANGED exit
    /\ log' = Append(log, "execute_command d r,a,s")
    /\ UNCHANGED <<callVars, params, new_params, cmd_result_b, merged_list, requests, result>>

\* cmd_result_b = execute_command("d r,a,jn"); if cmd_result_b.rc > 0: fail_json
RunQueryB ==
    /\ pc = "query_b"
    /\ \E response \in Responses(StdoutsB) :
        LET r == execute_command(response)
        IN /\ cmd_result_b' = r
           /\ IF r.rc > 0
              THEN exit' = CommandFailure(r, "d r,a,jn") /\ pc' = "exited"
              ELSE pc' = "merge" /\ UNCHANGED exit
    /\ log' = Append(log, "execute_command d r,a,jn")
    /\ UNCHANGED <<callVars, params, new_params, cmd_result_a, merged_list, requests, result>>

\* merged_list = create_merge_list(cmd_result_a.message, cmd_result_b.message)
RunMerge ==
    /\ pc = "merge"
    /\ merged_list' = create_merge_list(cmd_result_a.message, cmd_result_b.message)
    /\ pc' = "filter"
    /\ log' = log \o <<"parse_result_a", "parse_result_b", "merge_list">>
    /\ UNCHANGED <<callVars, params, new_params, cmd_result_a, cmd_result_b, requests,
                   result, exit>>

\* requests = find_required_request(merged_list, new_params)
\* if requests: result["count"] = len(requests)
\* except Exception as e: module.fail_json(msg="An unexpected error ...", **result)
RunFilter ==
    /\ pc = "filter"
    /\ LET r == find_required_request(merged_list, new_params)
       IN IF r.kind = "raise"
          THEN /\ exit' = FailJson(result @@ [msg |-> "An unexpected error occurred: repr(e)"], r)
               /\ pc' = "exited"
               /\ UNCHANGED <<requests, result>>
          ELSE /\ requests' = r.value
               /\ result' = IF r.value # <<>>
                            THEN result @@ [count |-> Len(r.value)]
                            ELSE result
               /\ pc' = "exit"
               /\ UNCHANGED exit
    /\ log' = Append(log, "filter_requests")
    /\ UNCHANGED <<callVars, params, new_params, cmd_result_a, cmd_result_b, merged_list>>

\* result["actions"] = requests; module.exit_json(**result)
RunExit ==
    /\ pc = "exit"
    /\ result' = [actions |-> requests] @@ result
    /\ exit' = ExitJson(result')
    /\ pc' = "exited"
    /\ UNCHANGED <<callVars, params, new_params, cmd_result_a, cmd_result_b, merged_list,
                   requests, log>>

Next ==
    \/ RunParseParams
    \/ RunQueryA
    \/ RunQueryB
    \/ RunMerge
    \/ RunFilter
    \/ RunExit

Spec == Init /\ [][Next]_vars

----------------------------------------------------------------------------
(* Claims about run_module, checked under Spec *)

\* every character is a letter or a digit
Alnum(v) == \A i \in DOMAIN v : v[i] \in Lower \cup Upper \cup Digits

\* the shape rule of system and job_name, as the specification words it:
\* 1-8 alphanumerics, or 0-7 alphanumerics and then one "*"
WellShapedName(v) ==
    \/ Len(v) \in 1..8 /\ Alnum(v)
    \/ /\ Len(v) \in 1..8
       /\ v[Len(v)] = "*"
       /\ Alnum(SubSeq(v, 1, Len(v) - 1))

\* the shape rule of message_id: the same without the length cap
WellShapedId(v) ==
    \/ Len(v) >= 1 /\ Alnum(v)
    \/ /\ Len(v) >= 1
       /\ v[Len(v)] = "*"
       /\ Alnum(SubSeq(v, 1, Len(v) - 1))

\* the supplied filter values that violate their shape rule
Offending ==
    {params[k] : k \in {k \in {"system", "job_name"} :
                          params[k] # None /\ ~WellShapedName(params[k])}}
    \cup {params[k] : k \in {k \in {"message_id"} :
                               params[k] # None /\ ~WellShapedId(params[k])}}

EngineSteps == {"parse_result_a", "parse_result_b", "merge_list", "filter_requests"}

Logged(step) == \E i \in DOMAIN log : log[i] = step

\* the claim of C5 about one query: a non-zero rc ends the run in a failure
\* that forwards the query's rc, stdout and stderr, and no engine step ran
NonZeroFails(r, cmd) ==
    (r.called /\ r.rc # 0) =>
        /\ pc = "exited"
        /\ exit.how = "fail_json"
        /\ exit.kw.cmd = cmd
        /\ exit.kw.rc = r.rc
        /\ exit.kw.stdout = r.stdout
        /\ exit.kw.stderr = r.stderr
        /\ \A step \in EngineSteps : ~Logged(step)

\* C5: whenever either operator query returns a non-zero status code, the
\* invocation fails with that query's raw stdout/stderr/rc forwarded, and
\* parse, merge and filter are never run.
C5_NonZeroStatusFails ==
    /\ NonZeroFails(cmd_result_a, "d r,a,s")
    /\ NonZeroFails(cmd_result_b, "d r,a,jn")

\* C6: if a supplied filter value violates its shape rule, run_module fails
\* with a ValidationError carrying an offending value before any operator
\* query, parse, merge or filter, and the failure has no actions and no count.
C6_ValidationAbortsFirst ==
    (Offending # {} /\ pc # "parse_params") =>
        /\ pc = "exited"
        /\ exit.how = "fail_json"
        /\ exit.cause.kind = "raise"
        /\ exit.cause.exc = "ValidationError"
        /\ exit.cause.arg \in Offending
        /\ ~cmd_result_a.called
        /\ ~cmd_result_b.called
        /\ log = <<"parse_params">>
        /\ "actions" \notin DOMAIN exit.kw
        /\ "count" \notin DOMAIN exit.kw

\* a run that was given two shape-violating values and has ended
C6_Witness ==
    /\ pc = "exited"
    /\ Cardinality(Offending) = 2
    /\ exit.how = "fail_json"

\* a successful invocation: both queries came back with rc 0 and the run
\* ended in exit_json
Successful ==
    /\ exit.how = "exit_json"
    /\ cmd_result_a.rc = 0
    /\ cmd_result_b.rc = 0

\* C7: every successful invocation returns a count together with actions,
\* and count is the number of records in actions, the empty result included.
C7_CountWithActions ==
    Successful =>
        /\ "actions" \in DOMAIN exit.kw
        /\ "count" \in DOMAIN exit.kw
        /\ exit.kw.count = Len(exit.kw.actions)

\* C8: changed is True on every invocation without a module failure or a
\* command failure.
C8_ChangedOnSuccess ==
    Successful => exit.kw.changed = TRUE

----------------------------------------------------------------------------
(* Single calls of the pure functions.  Init draws the arguments, the one  *)
(* step of each specification is the call.                                 *)

\* the strings over the characters C of length at most n
Strings(C, n) == UNION {[1..k -> C] : k \in 0..n}

\* the lists of elements of S of length at most n
Lists(S, n) == UNION {[1..k -> S] : k \in 0..n}

Range(f) == {f[i] : i \in DOMAIN f}

(* system_type, job_name_type, message_id_type *)

MaxHead == 1

MaxPad == 8

MaxTail == 2

HeadChars == {"a", "*", "-"}

TailChars == {"a", "B", "7", "*", "-", "\n"}

Pad(n) == [i \in 1..n |-> "a"]

\* candidate values: a short head, a run of letters, a short tail
ShapeInputs ==
    {h \o Pad(n) \o t : h \in Strings(HeadChars, MaxHead), n \in 0..MaxPad,
                        t \in Strings(TailChars, MaxTail)}

InitValidate ==
    /\ RunIdle
    /\ fn = "none"
    /\ args \in ShapeInputs
    /\ ret = NotCalled

CallSystemType ==
    /\ fn = "none"
    /\ fn' = "system_type"
    /\ ret' = system_type(args)
    /\ UNCHANGED <<args, runVars>>

CallJobNameType ==
    /\ fn = "none"
    /\ fn' = "job_name_type"
    /\ ret' = job_name_type(args)
    /\ UNCHANGED <<args, runVars>>

CallMessageIdType ==
    /\ fn = "none"
    /\ fn' = "message_id_type"
    /\ ret' = message_id_type(args)
    /\ UNCHANGED <<args, runVars>>

NextValidate ==
    \/ CallSystemType
    \/ CallJobNameType
    \/ CallMessageIdType

SpecValidate == InitValidate /\ [][NextValidate]_vars

\* C4: system_type / job_name_type return the upper-cased string exactly
\* when the value is 1-8 alphanumerics or 0-7 alphanumerics and one trailing
\* "*"; for every other string they raise ValidationError with the value.
C4_ShapeValidation ==
    fn \in {"system_type", "job_name_type"} =>
        ret = IF WellShapedName(args)
              THEN Return(StrUpper(args))
              ELSE Raise("ValidationError", args)

\* a wildcard value of the greatest length accepted, upper-cased
C4_Witness ==
    /\ fn = "system_type"
    /\ Len(args) = 8
    /\ args[8] = "*"
    /\ ret.kind = "return"
    /\ ret.value # args

(* merge_list *)

MaxRecs == 2

Numbers == {<<"1", "1">>, <<"1", "2">>}

\* records in the shape parse_result_a emits
RecordsA ==
    {[number |-> n, type |-> <<"R">>, system |-> <<"S">>] @@ job :
        n \in Numbers, job \in {<<>>, [job_id |-> <<"J">>]}}

\* records in the shape parse_result_b emits
RecordsB ==
    {[number |-> n, message_id |-> <<"M">>] @@ job :
        n \in Numbers, job \in {<<>>, [job_name |-> <<"J", "B">>]}}

InitMerge ==
    /\ RunIdle
    /\ fn = "none"
    /\ args \in [list_a : Lists(RecordsA, MaxRecs), list_b : Lists(RecordsB, MaxRecs)]
    /\ ret = NotCalled

CallMergeList ==
    /\ fn = "none"
    /\ fn' = "merge_list"
    /\ ret' = Return(merge_list(args.list_a, args.list_b))
    /\ UNCHANGED <<args, runVars>>

NextMerge == CallMergeList

SpecMerge == InitMerge /\ [][NextMerge]_vars

\* the pairs of positions whose records share the sequence number
JoinPairs(list_a, list_b) ==
    {ij \in (DOMAIN list_a) \X (DOMAIN list_b) :
        list_a[ij[1]].number = list_b[ij[2]].number}

\* the position of a pair in the order "by a's position, then by b's"
JoinRank(P, ij) ==
    Cardinality({q \in P : q[1] < ij[1] \/ (q[1] = ij[1] /\ q[2] <= ij[2])})

\* the union of the fields of two records
FieldUnion(a, b) ==
    [k \in DOMAIN a \cup DOMAIN b |-> IF k \in DOMAIN b THEN b[k] ELSE a[k]]

\* C3: merge_list is an inner join on "number" with multiplicity: exactly
\* one merged record (the union of the fields) per pair (a, b) with equal
\* number, ordered by a's position and then b's, nothing deduplicated; a
\* number found in one list only produces no record.
C3_InnerJoin ==
    fn = "merge_list" =>
        LET P == JoinPairs(args.list_a, args.list_b)
            out == ret.value
        IN /\ Len(out) = Cardinality(P)
           /\ \A ij \in P :
                out[JoinRank(P, ij)] = FieldUnion(args.list_a[ij[1]], args.list_b[ij[2]])
           /\ \A i \in DOMAIN out :
                /\ \E j \in DOMAIN args.list_a : args.list_a[j].number = out[i].number
                /\ \E j \in DOMAIN args.list_b : args.list_b[j].number = out[i].number

\* a reused sequence number on both sides, and every pair kept
C3_Witness ==
    /\ fn = "merge_list"
    /\ Len(args.list_a) = 2
    /\ Len(args.list_b) = 2
    /\ Len(ret.value) = 4
    /\ ret.value[2] # ret.value[3]

(* filter_requests *)

\* merged records: job_name may be missing
MergedRecords ==
    {[number |-> <<"1", "1">>, type |-> <<"R">>, system |-> sy, message_id |-> mi] @@ job :
        sy \in {<<"A">>, <<"A", "B">>},
        mi \in {<<"M">>, <<"M", "N">>},
        job \in {<<>>, [job_name |-> <<"J">>], [job_name |-> <<"J", "K">>]}}

\* validated filter values: None, exact, wildcard
FilterParams ==
    [system : {None, <<"A">>, <<"A", "*">>},
     job_name : {None, <<"J">>, <<"J", "*">>},
     message_id : {None, <<"M">>, <<"M", "*">>}]

InitFilter ==
    /\ RunIdle
    /\ fn = "none"
    /\ args \in [list : Lists(MergedRecords, MaxRecs), params : FilterParams]
    /\ ret = NotCalled

CallFilterRequests ==
    /\ fn = "none"
    /\ fn' = "filter_requests"
    /\ ret' = filter_requests(args.list, args.params)
    /\ UNCHANGED <<args, runVars>>

NextFilter == CallFilterRequests

SpecFilter == InitFilter /\ [][NextFilter]_vars

\* the predicates a FilterCriteria supplies
Supplied(fparams) == {k \in DOMAIN fparams : fparams[k] # None}

\* a record satisfies the predicate on field k: it has the field, and the
\* field starts with the prefix (pattern ending in "*") or equals the pattern
Satisfies(rec, k, pattern) ==
    /\ k \in DOMAIN rec
    /\ IF pattern[Len(pattern)] = "*"
       THEN /\ Len(rec[k]) >= Len(pattern) - 1
            /\ SubSeq(rec[k], 1, Len(pattern) - 1) = SubSeq(pattern, 1, Len(pattern) - 1)
       ELSE rec[k] = pattern

SatisfiesAll(rec, fparams) ==
    \A k \in Supplied(fparams) : Satisfies(rec, k, fparams[k])

\* the order-preserving subsequence of the records that satisfy a test
RECURSIVE Subsequence(_, _)
Subsequence(list, fparams) ==
    IF list = <<>> THEN <<>>
    ELSE (IF SatisfiesAll(Head(list), fparams) THEN <<Head(list)>> ELSE <<>>)
         \o Subsequence(Tail(list), fparams)

\* C1: a record that lacks the field of a supplied predicate never matches
\* and is excluded, exact pattern or wildcard, and the filter still returns
\* the remaining matching records instead of failing.
C1_MissingFieldExcluded ==
    fn = "filter_requests" =>
        /\ ret.kind = "return"
        /\ \A i \in DOMAIN ret.value : Supplied(args.params) \subseteq DOMAIN ret.value[i]
        /\ \A i \in DOMAIN args.list :
             SatisfiesAll(args.list[i], args.params) => args.list[i] \in Range(ret.value)

\* C2: filter_requests returns exactly the order-preserving subsequence of
\* the records that satisfy every supplied predicate; with no predicate the
\* list comes back unchanged.
C2_ExactSubsequence ==
    fn = "filter_requests" => ret = Return(Subsequence(args.list, args.params))

\* the orders in which three predicates can be applied
Orders ==
    {o \in [1..3 -> {"system", "job_name", "message_id"}] :
        \A i, j \in 1..3 : i # j => o[i] # o[j]}

\* C10: applying the predicates in any order gives the outcome of the fixed
\* order system, job_name, message_id.
C10_OrderIndependent ==
    fn = "filter_requests" =>
        \A o \in Orders : FilterInOrder(args.list, args.params, o, 1) = ret

(* parse_result_a *)

MaxTextTail == 4

\* "11 R S"
HeadA == <<"1", "1", " ", "R", " ", "S">>

TextChars == {"1", "J", " ", "&", "\n", "x"}

InitParse ==
    /\ RunIdle
    /\ fn = "none"
    /\ args \in {HeadA \o t : t \in Strings(TextChars, MaxTextTail)}
    /\ ret = NotCalled

CallParseResultA ==
    /\ fn = "none"
    /\ fn' = "parse_result_a"
    /\ ret' = Return(parse_result_a(args))
    /\ UNCHANGED <<args, runVars>>

NextParse == CallParseResultA

SpecParse == InitParse /\ [][NextParse]_vars

\* C9: every record parse_result_a emits has job_id and message_text either
\* absent or non-empty, a remainder that is empty after trimming included.
C9_NoEmptyFields ==
    fn = "parse_result_a" =>
        \A i \in DOMAIN ret.value :
            \A k \in {"job_id", "message_text"} \cap DOMAIN ret.value[i] :
                ret.value[i][k] # <<>>

====
